---------------------------- MODULE Spec2Model ----------------------------
(***************************************************************************)
(* A model of the AI_DnD backend: the sessions and messages tables, the    *)
(* turn processor and dice engine of services/ai_service.py, the session   *)
(* lifecycle handlers of routers/game.py and routers/sessions.py, the      *)
(* unguarded entry points of routers/ai.py and the websocket gateway of    *)
(* main.py with its connection registry.                                   *)
(*                                                                         *)
(* Every handler is one action.  The handlers are coroutines of a single   *)
(* event loop, and the datastore and generation calls inside them are      *)
(* plain blocking calls (no await reaches the loop), so a handler runs     *)
(* from its first statement to its return without interleaving.            *)
(*                                                                         *)
(* The handlers are put together in specifications over the same           *)
(* variables: Spec (turn processing), SpecDice (the dice engine),          *)
(* SpecLifecycle (the session lifecycle and the entry points it is to      *)
(* guard) and SpecHub (the gateway and its registry); SpecFrames (the      *)
(* gateway's game_action and dice_roll frames), SpecSetup (session         *)
(* initialization), SpecLoop (the event loop during a generation call),    *)
(* SpecValidation (payload validation at every entry point) and            *)
(* SpecMessages (the messages router and the reset route) follow them.     *)
(***************************************************************************)
EXTENDS Integers, Sequences, FiniteSets, TLC

VARIABLES
    sessions,   \* the sessions table: a set of rows
    messages,   \* the messages table: rows in creation order
    members,    \* the registry: session id -> set of connections
    conns,      \* each websocket connection: its state and its session id
    sent,       \* the events the last handler delivered, per connection
    pending,    \* the dice request about to be served (dice engine specification)
    inflight,   \* the turn whose generation call is running (event loop specification)
    last        \* what the last handler was given and what it answered

vars == <<sessions, messages, members, conns, sent, pending, inflight, last>>

---------------------------------------------------------------------------
(* Bounds of the model *)

MaxRows == 4        \* rows the messages table may hold
MaxCount == 2       \* dice per roll drawn in the dice engine specification
FaceSpread == 1     \* faces drawn from each end of a die's range

(* Constants of the program *)

CountMin == 1
CountMax == 10
ModMin == -20
ModMax == 20
SuccessThreshold == 10

None == "None"

Users == {"u1", "u2"}
SessionIds == {"s1", "s2"}
Conns == {"c1", "c2", "c3"}

DiceTypes == {"d4", "d6", "d8", "d10", "d12", "d20", "d100"}

Apology ==
    "I apologize, but I'm having trouble processing your action right now. Please try again."

CompletionMessage == "The adventure has been completed. Thank you for playing!"

---------------------------------------------------------------------------
(* The datastore *)

\* supabase.table('sessions').select(...).eq('id', sid).execute().data
SelectSession(sid) == {r \in sessions : r.id = sid}

\* the one row of a non-empty select: session_response.data[0]
SessionRow(sid) == CHOOSE r \in sessions : r.id = sid

\* supabase.table('sessions').update(data).eq('id', sid): data is a function
\* from some of the columns to their new values
UpdateSessionRows(sid, data) ==
    {IF r.id = sid
        THEN [c \in DOMAIN r |-> IF c \in DOMAIN data THEN data[c] ELSE r[c]]
        ELSE r : r \in sessions}

MessageRow(sid, uid, role, content) ==
    [session_id |-> sid, user_id |-> uid, role |-> role, content |-> content]

\* select(...).eq('session_id', sid).order('created_at')
Transcript(msgs, sid) == SelectSeq(msgs, LAMBDA m : m.session_id = sid)

\* delete().eq('session_id', sid)
DeleteSessionMessages(msgs, sid) == SelectSeq(msgs, LAMBDA m : m.session_id # sid)

\* A variant of _save_message that lets the store's exception escape.
SaveMessageRaising(msgs, sid, role, content, ok) ==
    [msgs |-> IF ok THEN Append(msgs, MessageRow(sid, None, role, content)) ELSE msgs,
     raised |-> ~ok]

\* AIService._save_message: insert the row; an exception of the store is
\* logged and swallowed, so the caller never sees one.  ok is whether the
\* store accepts the insert.
SaveMessage(msgs, sid, role, content, ok) ==
    [msgs |-> IF ok THEN Append(msgs, MessageRow(sid, None, role, content)) ELSE msgs,
     raised |-> FALSE]

\* AIService._get_conversation_history: the (role, content) pairs of the
\* session in creation order; [] when the store fails.
GetConversationHistory(msgs, sid, ok) ==
    IF ok
    THEN [i \in 1..Len(Transcript(msgs, sid)) |->
            [role |-> Transcript(msgs, sid)[i].role,
             content |-> Transcript(msgs, sid)[i].content]]
    ELSE <<>>

---------------------------------------------------------------------------
(* The request schemas *)

\* Python truthiness of an Optional[str]: None and "" are false
Truthy(v) == v # None /\ v # ""

\* str.strip() on the action texts the model draws
Strip(v) ==
    CASE v = "  " -> ""
      [] v = " run " -> "run"
      [] OTHER -> v

\* A variant of GameAction without the validator of 'action'.
ParseGameActionLax(p) ==
    IF p.action = None
    THEN [valid |-> FALSE, value |-> None]
    ELSE [valid |-> TRUE,
          value |-> [action |-> Strip(p.action),
                     description |-> p.description,
                     parameters |-> p.parameters]]

\* GameAction built from the payload: 'action' is required, is stripped, and must not be
\* empty after stripping; a payload that fails raises a validation error
ParseGameAction(p) ==
    IF p.action = None \/ Strip(p.action) = ""
    THEN [valid |-> FALSE, value |-> None]
    ELSE [valid |-> TRUE,
          value |-> [action |-> Strip(p.action),
                     description |-> p.description,
                     parameters |-> p.parameters]]

\* int(roll.dice_type.value.replace('d', ''))
DiceSides(dt) ==
    CASE dt = "d4" -> 4
      [] dt = "d6" -> 6
      [] dt = "d8" -> 8
      [] dt = "d10" -> 10
      [] dt = "d12" -> 12
      [] dt = "d20" -> 20
      [] dt = "d100" -> 100

\* DiceRoll built from the payload: dice_type of the enumeration, 1 <= count <= 10,
\* -20 <= modifier <= 20
ParseDiceRoll(p) ==
    IF p.dice_type \in DiceTypes
       /\ p.count >= CountMin /\ p.count <= CountMax
       /\ p.modifier >= ModMin /\ p.modifier <= ModMax
    THEN [valid |-> TRUE, value |-> p]
    ELSE [valid |-> FALSE, value |-> None]

---------------------------------------------------------------------------
(* The generation client *)

Replies == {"You see a door."}
GenErrors == {"503 UNAVAILABLE"}

\* What one generate_content call does: it returns a text or raises
GenOutcomes ==
    [raised : {FALSE}, text : Replies] \cup [raised : {TRUE}, text : GenErrors]

---------------------------------------------------------------------------
(* The turn processor: AIService.process_game_action *)

\* lines 87-91: the text of the player entry
UserContent(action) ==
    "Player action: " \o action.action
    \o (IF Truthy(action.description)
        THEN "\nDescription: " \o action.description ELSE "")
    \o (IF Truthy(action.parameters)
        THEN "\nParameters: " \o action.parameters ELSE "")

\* the dictionary returned on the normal path
OkReply(action, sid, text) ==
    [response |-> text, error |-> None, action_processed |-> action.action,
     session_id |-> sid]

\* the dictionary returned by the except branch
FailedReply(sid, err) ==
    [response |-> Apology, error |-> err, action_processed |-> None,
     session_id |-> sid]

\* A variant of process_game_action that records the placeholder as a model
\* entry when the generation call raises.
ProcessGameActionSavingPlaceholder(msgs, action, sid, gen, st) ==
    LET s1 == SaveMessage(msgs, sid, "user", UserContent(action), st.w1)
        s2 == SaveMessage(s1.msgs, sid, "model",
                          IF gen.raised THEN Apology ELSE gen.text, st.w2)
    IN  [msgs |-> s2.msgs, raised |-> FALSE,
         ret |-> IF gen.raised THEN FailedReply(sid, gen.text)
                 ELSE OkReply(action, sid, gen.text),
         context |-> Append(GetConversationHistory(msgs, sid, st.read),
                            [role |-> "user", content |-> UserContent(action)])]

\* A variant of process_game_action that persists the player entry before
\* the generation call.
ProcessGameActionSavingFirst(msgs, action, sid, gen, st) ==
    LET s1 == SaveMessage(msgs, sid, "user", UserContent(action), st.w1)
        s2 == SaveMessage(s1.msgs, sid, "model", gen.text, st.w2)
    IN  [msgs |-> IF gen.raised THEN s1.msgs ELSE s2.msgs, raised |-> FALSE,
         ret |-> IF gen.raised THEN FailedReply(sid, gen.text)
                 ELSE OkReply(action, sid, gen.text),
         context |-> Append(GetConversationHistory(msgs, sid, st.read),
                            [role |-> "user", content |-> UserContent(action)])]

\* A variant of process_game_action that lets the exception of the
\* generation call out.
ProcessGameActionRaising(msgs, action, sid, gen, st) ==
    LET s1 == SaveMessage(msgs, sid, "user", UserContent(action), st.w1)
        s2 == SaveMessage(s1.msgs, sid, "model", gen.text, st.w2)
    IN  [msgs |-> IF gen.raised THEN msgs ELSE s2.msgs,
         raised |-> gen.raised,
         ret |-> IF gen.raised THEN FailedReply(sid, gen.text)
                 ELSE OkReply(action, sid, gen.text),
         context |-> Append(GetConversationHistory(msgs, sid, st.read),
                            [role |-> "user", content |-> UserContent(action)])]

\* A variant of process_game_action that persists the reply before the
\* player entry.
ProcessGameActionReplyFirst(msgs, action, sid, gen, st) ==
    LET s1 == SaveMessage(msgs, sid, "model", gen.text, st.w1)
        s2 == SaveMessage(s1.msgs, sid, "user", UserContent(action), st.w2)
    IN  [msgs |-> IF gen.raised THEN msgs ELSE s2.msgs, raised |-> FALSE,
         ret |-> IF gen.raised THEN FailedReply(sid, gen.text)
                 ELSE OkReply(action, sid, gen.text),
         context |-> Append(GetConversationHistory(msgs, sid, st.read),
                            [role |-> "user", content |-> UserContent(action)])]

\* AIService.process_game_action.  gen is what the generation call does, st
\* says which of the three store calls the store accepts (read, w1, w2).
\* The result carries the messages table afterwards, the returned
\* dictionary, the context handed to the generation client, and whether an
\* exception left the function (it never does: the except branch returns).
ProcessGameAction(msgs, action, sid, gen, st) ==
    LET history == GetConversationHistory(msgs, sid, st.read)
        user_content == UserContent(action)
        context == Append(history, [role |-> "user", content |-> user_content])
        s1 == SaveMessage(msgs, sid, "user", user_content, st.w1)
        s2 == SaveMessage(s1.msgs, sid, "model", gen.text, st.w2)
    IN  IF gen.raised
        THEN [msgs |-> msgs, raised |-> FALSE,
              ret |-> FailedReply(sid, gen.text), context |-> context]
        ELSE IF s1.raised
        THEN [msgs |-> s1.msgs, raised |-> FALSE,
              ret |-> FailedReply(sid, "store unavailable"), context |-> context]
        ELSE IF s2.raised
        THEN [msgs |-> s2.msgs, raised |-> FALSE,
              ret |-> FailedReply(sid, "store unavailable"), context |-> context]
        ELSE [msgs |-> s2.msgs, raised |-> FALSE,
              ret |-> OkReply(action, sid, gen.text), context |-> context]

\* the store outcomes of one process_game_action call
StoreOutcomes == [read : BOOLEAN, w1 : BOOLEAN, w2 : BOOLEAN]
StoreUp == [read |-> TRUE, w1 |-> TRUE, w2 |-> TRUE]

---------------------------------------------------------------------------
(* The dice engine: AIService.process_dice_roll *)

\* Optional[bool]: <<>> is None, <<b>> is the boolean b
NoFlag == <<>>
Flag(b) == <<b>>

RECURSIVE Sum(_)
Sum(s) == IF s = <<>> THEN 0 ELSE Head(s) + Sum(Tail(s))

\* random.randint(lo, hi): any integer of lo..hi; the model draws the
\* FaceSpread lowest and the FaceSpread highest of them
RandInt(lo, hi) == {v \in lo..hi : v < lo + FaceSpread \/ v > hi - FaceSpread}

\* line 131: the lists [random.randint(1, dice_sides) for _ in range(roll.count)]
DrawRolls(roll) == [1..roll.count -> RandInt(1, DiceSides(roll.dice_type))]

\* str(rolls) of a Python list of integers
RECURSIVE JoinInts(_)
JoinInts(s) ==
    IF s = <<>> THEN ""
    ELSE IF Len(s) = 1 THEN ToString(Head(s))
    ELSE ToString(Head(s)) \o ", " \o JoinInts(Tail(s))

FormatRolls(rolls) == "[" \o JoinInts(rolls) \o "]"

\* abs(roll.modifier)
Abs(n) == IF n < 0 THEN 0 - n ELSE n

\* A variant of the success flag that asks for more than the threshold.
SuccessFlagStrict(roll, final_result) ==
    IF Truthy(roll.skill_name) /\ DiceSides(roll.dice_type) = 20
    THEN Flag(final_result > SuccessThreshold)
    ELSE NoFlag

\* lines 136-139: the success flag
SuccessFlag(roll, final_result) ==
    IF Truthy(roll.skill_name) /\ DiceSides(roll.dice_type) = 20
    THEN Flag(final_result >= SuccessThreshold)
    ELSE NoFlag

\* lines 151-158: the text of the system entry
RollMessage(roll, rolls, final_result, success) ==
    "Rolled " \o ToString(roll.count) \o roll.dice_type
    \o (IF roll.modifier > 0 THEN " + " \o ToString(roll.modifier)
        ELSE IF roll.modifier < 0 THEN " - " \o ToString(Abs(roll.modifier))
        ELSE "")
    \o (IF Truthy(roll.skill_name) THEN " for " \o roll.skill_name ELSE "")
    \o ": " \o FormatRolls(rolls) \o " = " \o ToString(final_result)
    \o (IF success = NoFlag THEN ""
        ELSE IF success = Flag(TRUE) THEN " (Success)" ELSE " (Failure)")

\* lines 167-173: the result of the except branch
FallbackResult(roll) ==
    [rolls |-> <<1>>, total |-> 1, modifier |-> 0, final_result |-> 1,
     skill_name |-> roll.skill_name, success |-> NoFlag]

\* AIService.process_dice_roll.  rolls is the list drawn at line 131, ok is
\* whether the store accepts the insert.  The except branch is taken when an
\* exception reaches it; _save_message lets none out.
ProcessDiceRoll(msgs, roll, sid, rolls, ok) ==
    LET total == Sum(rolls)
        final_result == total + roll.modifier
        success == SuccessFlag(roll, final_result)
        result == [rolls |-> rolls, total |-> total, modifier |-> roll.modifier,
                   final_result |-> final_result, skill_name |-> roll.skill_name,
                   success |-> success]
        saved == SaveMessage(msgs, sid, "system",
                             RollMessage(roll, rolls, final_result, success), ok)
    IN  IF saved.raised
        THEN [msgs |-> saved.msgs, result |-> FallbackResult(roll)]
        ELSE [msgs |-> saved.msgs, result |-> result]

---------------------------------------------------------------------------
(* The connection registry: services/websocket_manager.py is not among the *)
(* sources; join, leave and broadcast follow the specification's section   *)
(* 4.3.  A connection is "open", "dead" (its peer is gone, a send to it    *)
(* throws, its receive loop has not noticed yet) or "closed".              *)

\* join: record the connection under the session's member set
Join(mem, c, sid) == [mem EXCEPT ![sid] = @ \cup {c}]

\* A variant of leave that empties the session's member set.
LeaveDroppingAll(mem, c, sid) == [mem EXCEPT ![sid] = {}]

\* leave: remove the connection from the member set; a no-op when absent
Leave(mem, c, sid) == [mem EXCEPT ![sid] = @ \ {c}]

NoEvent == <<>>
NoSent == [c \in Conns |-> NoEvent]

\* A variant of broadcast that stops at the first member whose send throws
\* (members are visited in the order c1, c2, ...).
BroadcastAborting(mem, cn, sid, event, exclude) ==
    LET targets == mem[sid] \ {exclude}
        failed == {m \in targets : cn[m].st # "open"}
        ord(m) == CASE m = "c1" -> 1 [] m = "c2" -> 2 [] OTHER -> 3
        before(m) == \A f \in failed : ord(m) < ord(f)
    IN  [members |-> mem,
         sent |-> [c \in Conns |->
                    IF c \in targets /\ c \notin failed /\ before(c)
                    THEN <<event>> ELSE NoEvent]]

\* broadcast: deliver the event to every member of the session but the
\* excluded one; a member whose send throws is removed, the others still
\* get the event
BroadcastToSession(mem, cn, sid, event, exclude) ==
    LET targets == mem[sid] \ {exclude}
        failed == {m \in targets : cn[m].st # "open"}
    IN  [members |-> [mem EXCEPT ![sid] = @ \ failed],
         sent |-> [c \in Conns |->
                    IF c \in targets \ failed THEN <<event>> ELSE NoEvent]]

---------------------------------------------------------------------------
(* What a handler leaves in `last` *)

NoGen == [raised |-> FALSE, text |-> None]
NoReply == [response |-> None, error |-> None, action_processed |-> None,
            session_id |-> None]
NoRoll == [dice_type |-> None, count |-> 0, modifier |-> 0, skill_name |-> None]
NoResult == [rolls |-> <<>>, total |-> 0, modifier |-> 0, final_result |-> 0,
             skill_name |-> None, success |-> NoFlag]
NoUpdate == [title |-> None, description |-> None, status |-> None]
NoAction == [action |-> None, description |-> None, parameters |-> None]

NoLast ==
    [op |-> "none", user |-> None, conn |-> None, sid |-> None,
     code |-> 0, detail |-> None, gen |-> NoGen, st |-> StoreUp,
     action |-> NoAction, reply |-> NoReply, roll |-> NoRoll, result |-> NoResult,
     update |-> NoUpdate, leave |-> "none", payload |-> None, context |-> <<>>]

\* an HTTP answer: the status code and the detail of an HTTPException
Http(op, u, sid, code, detail) ==
    [NoLast EXCEPT !.op = op, !.user = u, !.sid = sid, !.code = code,
                   !.detail = detail]

\* an outbound websocket frame
Event(type, reply, result, payload) ==
    [type |-> type, reply |-> reply, result |-> result, payload |-> payload]

---------------------------------------------------------------------------
(* Inputs the handlers are given *)

\* request bodies that passed GameAction's validation
GameActions ==
    {[action |-> "look", description |-> None, parameters |-> None],
     [action |-> "run", description |-> "quietly", parameters |-> None]}

\* websocket payloads for a game_action frame, valid or not
ActionPayloads ==
    {[action |-> "look", description |-> None, parameters |-> None],
     [action |-> " run ", description |-> "quietly", parameters |-> None],
     [action |-> "  ", description |-> None, parameters |-> None],
     [action |-> None, description |-> None, parameters |-> None]}

\* bodies of a PUT /sessions/{id}
SessionUpdates ==
    {[title |-> "Renamed", description |-> None, status |-> None],
     [title |-> None, description |-> "Notes", status |-> None],
     [title |-> None, description |-> None, status |-> "active"],
     [title |-> None, description |-> None, status |-> "paused"],
     [title |-> None, description |-> None, status |-> "completed"]}

---------------------------------------------------------------------------
(* routers/game.py *)

\* submit_game_action
SubmitGameAction(u, sid, action, gen, st) ==
    /\ Len(messages) + 2 <= MaxRows
    /\ IF SelectSession(sid) = {}
       THEN /\ last' = Http("submit_game_action", u, sid, 404, "Session not found")
            /\ UNCHANGED messages
       ELSE IF SessionRow(sid).status # "active"
       THEN /\ last' = Http("submit_game_action", u, sid, 400,
                            "Cannot perform actions in inactive session")
            /\ UNCHANGED messages
       ELSE LET r == ProcessGameAction(messages, action, sid, gen, st)
            IN  /\ messages' = r.msgs
                /\ last' = [Http("submit_game_action", u, sid,
                                 IF r.raised THEN 400 ELSE 200,
                                 IF r.raised
                                 THEN "Failed to process action: " \o r.ret.error
                                 ELSE None)
                            EXCEPT !.gen = gen, !.st = st, !.action = action,
                                   !.reply = IF r.raised THEN NoReply ELSE r.ret,
                                   !.context = r.context]
    /\ sent' = NoSent
    /\ UNCHANGED <<sessions, members, conns>>

\* roll_dice
RollDice(u, sid, roll, rolls, ok) ==
    /\ Len(messages) + 1 <= MaxRows
    /\ IF SelectSession(sid) = {}
       THEN /\ last' = Http("roll_dice", u, sid, 404, "Session not found")
            /\ UNCHANGED messages
       ELSE IF SessionRow(sid).status # "active"
       THEN /\ last' = Http("roll_dice", u, sid, 400,
                            "Cannot roll dice in inactive session")
            /\ UNCHANGED messages
       ELSE LET r == ProcessDiceRoll(messages, roll, sid, rolls, ok)
            IN  /\ messages' = r.msgs
                /\ last' = [Http("roll_dice", u, sid, 200, None)
                            EXCEPT !.st = [StoreUp EXCEPT !.w1 = ok],
                                   !.roll = roll, !.result = r.result]
    /\ sent' = NoSent
    /\ UNCHANGED <<sessions, members, conns>>

\* A variant of pause_game_session without the check of the creator.
PauseGameSessionAnyUser(u, sid) ==
    /\ IF SelectSession(sid) = {}
       THEN /\ last' = Http("pause", u, sid, 404, "Session not found")
            /\ UNCHANGED sessions
       ELSE IF SessionRow(sid).status # "active"
       THEN /\ last' = Http("pause", u, sid, 400, "Session is not active")
            /\ UNCHANGED sessions
       ELSE /\ sessions' = UpdateSessionRows(sid, [status |-> "paused"])
            /\ last' = Http("pause", u, sid, 200, None)
    /\ sent' = NoSent
    /\ UNCHANGED <<messages, members, conns>>

\* pause_game_session
PauseGameSession(u, sid) ==
    /\ IF SelectSession(sid) = {}
       THEN /\ last' = Http("pause", u, sid, 404, "Session not found")
            /\ UNCHANGED sessions
       ELSE IF SessionRow(sid).creator_id # u
       THEN /\ last' = Http("pause", u, sid, 403,
                            "Only the session creator can pause the session")
            /\ UNCHANGED sessions
       ELSE IF SessionRow(sid).status # "active"
       THEN /\ last' = Http("pause", u, sid, 400, "Session is not active")
            /\ UNCHANGED sessions
       ELSE /\ sessions' = UpdateSessionRows(sid, [status |-> "paused"])
            /\ last' = Http("pause", u, sid, 200, None)
    /\ sent' = NoSent
    /\ UNCHANGED <<messages, members, conns>>

\* A variant of resume_game_session without the check of the status.
ResumeGameSessionAnyStatus(u, sid) ==
    /\ IF SelectSession(sid) = {}
       THEN /\ last' = Http("resume", u, sid, 404, "Session not found")
            /\ UNCHANGED sessions
       ELSE IF SessionRow(sid).creator_id # u
       THEN /\ last' = Http("resume", u, sid, 403,
                            "Only the session creator can resume the session")
            /\ UNCHANGED sessions
       ELSE /\ sessions' = UpdateSessionRows(sid, [status |-> "active"])
            /\ last' = Http("resume", u, sid, 200, None)
    /\ sent' = NoSent
    /\ UNCHANGED <<messages, members, conns>>

\* resume_game_session
ResumeGameSession(u, sid) ==
    /\ IF SelectSession(sid) = {}
       THEN /\ last' = Http("resume", u, sid, 404, "Session not found")
            /\ UNCHANGED sessions
       ELSE IF SessionRow(sid).creator_id # u
       THEN /\ last' = Http("resume", u, sid, 403,
                            "Only the session creator can resume the session")
            /\ UNCHANGED sessions
       ELSE IF SessionRow(sid).status # "paused"
       THEN /\ last' = Http("resume", u, sid, 400, "Session is not paused")
            /\ UNCHANGED sessions
       ELSE /\ sessions' = UpdateSessionRows(sid, [status |-> "active"])
            /\ last' = Http("resume", u, sid, 200, None)
    /\ sent' = NoSent
    /\ UNCHANGED <<messages, members, conns>>

\* complete_game_session: no check of the current status; the completion
\* message goes through _save_message
CompleteGameSession(u, sid, ok) ==
    /\ Len(messages) + 1 <= MaxRows
    /\ IF SelectSession(sid) = {}
       THEN /\ last' = Http("complete", u, sid, 404, "Session not found")
            /\ UNCHANGED <<sessions, messages>>
       ELSE IF SessionRow(sid).creator_id # u
       THEN /\ last' = Http("complete", u, sid, 403,
                            "Only the session creator can complete the session")
            /\ UNCHANGED <<sessions, messages>>
       ELSE /\ sessions' = UpdateSessionRows(sid, [status |-> "completed"])
            /\ messages' = SaveMessage(messages, sid, "system",
                                       CompletionMessage, ok).msgs
            /\ last' = [Http("complete", u, sid, 200, None)
                        EXCEPT !.st = [StoreUp EXCEPT !.w1 = ok]]
    /\ sent' = NoSent
    /\ UNCHANGED <<members, conns>>

---------------------------------------------------------------------------
(* routers/sessions.py *)

\* line 283: the columns of the body that are not None
UpdateData(body) ==
    [c \in {k \in DOMAIN body : body[k] # None} |-> body[c]]

\* update_session: every column the body sets is written, status included
UpdateSession(u, sid, body) ==
    /\ IF SelectSession(sid) = {}
       THEN /\ last' = Http("update", u, sid, 404, "Session not found")
            /\ UNCHANGED sessions
       ELSE IF SessionRow(sid).creator_id # u
       THEN /\ last' = Http("update", u, sid, 403,
                            "Only the session creator can update the session")
            /\ UNCHANGED sessions
       ELSE /\ sessions' = UpdateSessionRows(sid, UpdateData(body))
            /\ last' = [Http("update", u, sid, 200, None) EXCEPT !.update = body]
    /\ sent' = NoSent
    /\ UNCHANGED <<messages, members, conns>>

\* delete_session: the session's messages first, then the session
DeleteSession(u, sid) ==
    /\ IF SelectSession(sid) = {}
       THEN /\ last' = Http("delete", u, sid, 404, "Session not found")
            /\ UNCHANGED <<sessions, messages>>
       ELSE IF SessionRow(sid).creator_id # u
       THEN /\ last' = Http("delete", u, sid, 403,
                            "Only the session creator can delete the session")
            /\ UNCHANGED <<sessions, messages>>
       ELSE /\ messages' = DeleteSessionMessages(messages, sid)
            /\ sessions' = {r \in sessions : r.id # sid}
            /\ last' = Http("delete", u, sid, 200, None)
    /\ sent' = NoSent
    /\ UNCHANGED <<members, conns>>

---------------------------------------------------------------------------
(* routers/ai.py: no lookup of the session, no check of its status *)

\* process_game_action
AiProcessGameAction(u, sid, action, gen, st) ==
    /\ Len(messages) + 2 <= MaxRows
    /\ LET r == ProcessGameAction(messages, action, sid, gen, st)
       IN  /\ messages' = r.msgs
           /\ last' = [Http("ai_process_action", u, sid,
                            IF r.raised THEN 400 ELSE 200,
                            IF r.raised
                            THEN "Failed to process game action: " \o r.ret.error
                            ELSE None)
                       EXCEPT !.gen = gen, !.st = st, !.action = action,
                              !.reply = IF r.raised THEN NoReply ELSE r.ret,
                                   !.context = r.context]
    /\ sent' = NoSent
    /\ UNCHANGED <<sessions, members, conns>>

\* process_dice_roll
AiProcessDiceRoll(u, sid, roll, rolls, ok) ==
    /\ Len(messages) + 1 <= MaxRows
    /\ LET r == ProcessDiceRoll(messages, roll, sid, rolls, ok)
       IN  /\ messages' = r.msgs
           /\ last' = [Http("ai_roll_dice", u, sid, 200, None)
                       EXCEPT !.st = [StoreUp EXCEPT !.w1 = ok],
                              !.roll = roll, !.result = r.result]
    /\ sent' = NoSent
    /\ UNCHANGED <<sessions, members, conns>>

---------------------------------------------------------------------------
(* main.py: websocket_endpoint, one action per kind of inbound frame *)

TypingPayloads == {"A is typing", "B is typing", None}
UnknownTypes == {"ping", None}

WsLast(op, c, sid, detail) ==
    [NoLast EXCEPT !.op = op, !.conn = c, !.sid = sid, !.detail = detail]

\* line 203: the connection is accepted and joins the session of its URL;
\* the session is not looked up
WsConnect(c, sid) ==
    /\ conns[c].st = "closed"
    /\ conns' = [conns EXCEPT ![c] = [st |-> "open", sid |-> sid]]
    /\ members' = Join(members, c, sid)
    /\ last' = WsLast("ws_connect", c, sid, None)
    /\ sent' = NoSent
    /\ UNCHANGED <<sessions, messages>>

\* the peer goes away; the server has not noticed yet
PeerClose(c) ==
    /\ conns[c].st = "open"
    /\ conns' = [conns EXCEPT ![c].st = "dead"]
    /\ last' = WsLast("peer_close", c, conns[c].sid, None)
    /\ sent' = NoSent
    /\ UNCHANGED <<sessions, messages, members>>

\* A variant of the except branches that does not leave the registry.
WsFaultKeepingMember(op, c, detail) ==
    /\ members' = members
    /\ conns' = [conns EXCEPT ![c] = [st |-> "closed", sid |-> None]]
    /\ last' = [WsLast(op, c, conns[c].sid, detail)
                EXCEPT !.leave = IF c \in members[conns[c].sid]
                                 THEN "member" ELSE "absent"]
    /\ sent' = NoSent

\* A variant of the except branches that ends the loop of every connection
\* of the session.
WsFaultClosingSession(op, c, detail) ==
    /\ members' = [members EXCEPT ![conns[c].sid] = {}]
    /\ conns' = [d \in Conns |->
                  IF conns[d].sid = conns[c].sid
                  THEN [st |-> "closed", sid |-> None] ELSE conns[d]]
    /\ last' = [WsLast(op, c, conns[c].sid, detail)
                EXCEPT !.leave = IF c \in members[conns[c].sid]
                                 THEN "member" ELSE "absent"]
    /\ sent' = NoSent

\* lines 252-256: an exception ends the loop of this connection, which
\* leaves the registry; `leave` tells whether it still was a member
WsFault(op, c, detail) ==
    /\ members' = Leave(members, c, conns[c].sid)
    /\ conns' = [conns EXCEPT ![c] = [st |-> "closed", sid |-> None]]
    /\ last' = [WsLast(op, c, conns[c].sid, detail)
                EXCEPT !.leave = IF c \in members[conns[c].sid]
                                 THEN "member" ELSE "absent"]
    /\ sent' = NoSent

\* line 207 raises WebSocketDisconnect
WsReceiveDisconnect(c) ==
    /\ conns[c].st = "dead"
    /\ WsFault("ws_disconnect", c, "WebSocketDisconnect")
    /\ UNCHANGED <<sessions, messages>>

\* line 208: the frame is no JSON
WsBadFrame(c) ==
    /\ conns[c].st = "open"
    /\ WsFault("ws_bad_frame", c, "JSONDecodeError")
    /\ UNCHANGED <<sessions, messages>>

\* lines 211-224: a game_action frame
WsGameAction(c, payload, gen, st) ==
    /\ conns[c].st = "open"
    /\ Len(messages) + 2 <= MaxRows
    /\ LET sid == conns[c].sid
           parsed == ParseGameAction(payload)
           r == ProcessGameAction(messages, parsed.value, sid, gen, st)
           b == BroadcastToSession(members, conns, sid,
                                   Event("gm_response", r.ret, NoResult, None), None)
       IN  IF ~parsed.valid
           THEN /\ WsFault("ws_game_action", c, "ValidationError")
                /\ UNCHANGED messages
           ELSE IF r.raised
           THEN /\ WsFault("ws_game_action", c, r.ret.error)
                /\ messages' = r.msgs
           ELSE /\ messages' = r.msgs
                /\ members' = b.members
                /\ sent' = b.sent
                /\ last' = [WsLast("ws_game_action", c, sid, None)
                            EXCEPT !.gen = gen, !.st = st,
                                   !.action = parsed.value, !.reply = r.ret,
                                   !.context = r.context]
                /\ UNCHANGED conns
    /\ UNCHANGED <<sessions>>

\* A variant of the dice_roll branch that does not send the result back to
\* the sender.
WsDiceRollSkippingSender(c, payload, rolls, ok) ==
    /\ conns[c].st = "open"
    /\ Len(messages) + 1 <= MaxRows
    /\ LET sid == conns[c].sid
           parsed == ParseDiceRoll(payload)
           r == ProcessDiceRoll(messages, parsed.value, sid, rolls, ok)
           b == BroadcastToSession(members, conns, sid,
                                   Event("dice_result", NoReply, r.result, None), c)
       IN  IF ~parsed.valid
           THEN /\ WsFault("ws_dice_roll", c, "ValidationError")
                /\ UNCHANGED messages
           ELSE /\ messages' = r.msgs
                /\ members' = b.members
                /\ sent' = b.sent
                /\ last' = [WsLast("ws_dice_roll", c, sid, None)
                            EXCEPT !.st = [StoreUp EXCEPT !.w1 = ok],
                                   !.roll = parsed.value, !.result = r.result]
                /\ UNCHANGED conns
    /\ UNCHANGED <<sessions>>

\* lines 226-238: a dice_roll frame
WsDiceRoll(c, payload, rolls, ok) ==
    /\ conns[c].st = "open"
    /\ Len(messages) + 1 <= MaxRows
    /\ LET sid == conns[c].sid
           parsed == ParseDiceRoll(payload)
           r == ProcessDiceRoll(messages, parsed.value, sid, rolls, ok)
           b == BroadcastToSession(members, conns, sid,
                                   Event("dice_result", NoReply, r.result, None), None)
       IN  IF ~parsed.valid
           THEN /\ WsFault("ws_dice_roll", c, "ValidationError")
                /\ UNCHANGED messages
           ELSE /\ messages' = r.msgs
                /\ members' = b.members
                /\ sent' = b.sent
                /\ last' = [WsLast("ws_dice_roll", c, sid, None)
                            EXCEPT !.st = [StoreUp EXCEPT !.w1 = ok],
                                   !.roll = parsed.value, !.result = r.result]
                /\ UNCHANGED conns
    /\ UNCHANGED <<sessions>>

\* A variant of the typing branch that does not exclude the sender.
WsTypingEcho(c, payload) ==
    /\ conns[c].st = "open"
    /\ LET sid == conns[c].sid
           b == BroadcastToSession(members, conns, sid,
                                   Event("user_typing", NoReply, NoResult, payload), None)
       IN  IF payload = None
           THEN WsFault("ws_typing", c, "KeyError")
           ELSE /\ members' = b.members
                /\ sent' = b.sent
                /\ last' = [WsLast("ws_typing", c, sid, None)
                            EXCEPT !.payload = payload]
                /\ UNCHANGED conns
    /\ UNCHANGED <<sessions, messages>>

\* lines 240-250: a typing frame; a frame without payload raises KeyError
WsTyping(c, payload) ==
    /\ conns[c].st = "open"
    /\ LET sid == conns[c].sid
           b == BroadcastToSession(members, conns, sid,
                                   Event("user_typing", NoReply, NoResult, payload), c)
       IN  IF payload = None
           THEN WsFault("ws_typing", c, "KeyError")
           ELSE /\ members' = b.members
                /\ sent' = b.sent
                /\ last' = [WsLast("ws_typing", c, sid, None)
                            EXCEPT !.payload = payload]
                /\ UNCHANGED conns
    /\ UNCHANGED <<sessions, messages>>

\* A variant that treats a frame of another type as a fault.
WsUnknownClosing(c, type) ==
    /\ conns[c].st = "open"
    /\ WsFault("ws_unknown", c, type)
    /\ UNCHANGED <<sessions, messages>>

\* a frame with any other type: no branch is taken
WsUnknown(c, type) ==
    /\ conns[c].st = "open"
    /\ last' = WsLast("ws_unknown", c, conns[c].sid, type)
    /\ sent' = NoSent
    /\ UNCHANGED <<sessions, messages, members, conns>>

---------------------------------------------------------------------------
(* Initial states *)

NoPending == [roll |-> NoRoll, waiting |-> FALSE]
NoTurn == [conn |-> None, action |-> NoAction, waiting |-> FALSE]

InitialSession ==
    [id |-> "s1", status |-> "active", creator_id |-> "u1",
     title |-> "Game Session", description |-> None]

\* rows of earlier turns the datastore may hold when the backend starts:
\* a turn of session s1, or entries of two sessions interleaved
SeedTables ==
    {<<MessageRow("s1", None, "user", "Player action: enter"),
       MessageRow("s1", None, "model", "You stand in a hall.")>>,
     <<MessageRow("s1", None, "user", "Player action: enter"),
       MessageRow("s2", None, "model", "Elsewhere, rain.")>>}

InitWith(tables, requests) ==
    /\ sessions = {InitialSession}
    /\ messages \in tables
    /\ members = [s \in SessionIds |-> {}]
    /\ conns = [c \in Conns |-> [st |-> "closed", sid |-> None]]
    /\ sent = NoSent
    /\ pending \in requests
    /\ inflight = NoTurn
    /\ last = NoLast

(* Turn processing: process_game_action behind the game router, the ai     *)
(* router and the gateway, with every outcome of the generation call and   *)
(* of the three store calls, on a datastore that already holds rows.       *)

TurnUsers == {"u2"}
TurnConns == {"c1"}

Init == InitWith(SeedTables, {NoPending})

Next ==
    \/ \E u \in TurnUsers, sid \in SessionIds, a \in GameActions,
          gen \in GenOutcomes, st \in StoreOutcomes :
            SubmitGameAction(u, sid, a, gen, st) /\ UNCHANGED <<pending, inflight>>
    \/ \E u \in TurnUsers, sid \in SessionIds, a \in GameActions,
          gen \in GenOutcomes, st \in StoreOutcomes :
            AiProcessGameAction(u, sid, a, gen, st) /\ UNCHANGED <<pending, inflight>>
    \/ \E c \in TurnConns, sid \in SessionIds :
          WsConnect(c, sid) /\ UNCHANGED <<pending, inflight>>
    \/ \E c \in TurnConns : PeerClose(c) /\ UNCHANGED <<pending, inflight>>
    \/ \E c \in TurnConns : WsReceiveDisconnect(c) /\ UNCHANGED <<pending, inflight>>
    \/ \E c \in TurnConns, p \in ActionPayloads, gen \in GenOutcomes,
          st \in StoreOutcomes :
            WsGameAction(c, p, gen, st) /\ UNCHANGED <<pending, inflight>>

Spec == Init /\ [][Next]_vars

---------------------------------------------------------------------------
(* Claims on turn processing *)

TurnOps == {"submit_game_action", "ai_process_action", "ws_game_action"}

\* the handler recorded in l called process_game_action and got its
\* dictionary back
TurnReturned(l) == l.op \in TurnOps /\ l.reply # NoReply

\* the two entries a turn is to persist, in order
TurnEntries(l) ==
    <<MessageRow(l.sid, None, "user", UserContent(l.action)),
      MessageRow(l.sid, None, "model", l.reply.response)>>

ModelEntries(msgs, sid) ==
    SelectSeq(msgs, LAMBDA m : m.session_id = sid /\ m.role = "model")

AcceptedEntries(l) ==
    (IF l.st.w1 THEN <<TurnEntries(l)[1]>> ELSE <<>>)
    \o (IF l.st.w2 THEN <<TurnEntries(l)[2]>> ELSE <<>>)

C2_WsGenerationFailure ==
    [][(last'.op = "ws_game_action" /\ TurnReturned(last') /\ last'.gen.raised) =>
        /\ last'.reply.response = Apology
        /\ last'.reply.response # ""
        /\ ModelEntries(messages', last'.sid) = ModelEntries(messages, last'.sid)]_vars

\* the placeholder reached the sender after a failed generation call
C2_Witness ==
    /\ last.op = "ws_game_action" /\ last.gen.raised
    /\ last.reply.response = Apology
    /\ sent[last.conn] # NoEvent
    /\ sent[last.conn][1].reply.response = Apology

\* a failure of the generation client or of the store during the turn that
\* l records: the call raised, or the store refused a call that was made
TurnFailure(l) ==
    \/ l.gen.raised
    \/ ~l.st.read
    \/ ~l.gen.raised /\ (~l.st.w1 \/ ~l.st.w2)

\* C3, as claimed: in the HTTP path a failure of the generation client or of
\* the store while the action is processed ends in an error response that
\* carries the message, never in a success response.
C3_HttpFailureIsError ==
    (last.op = "submit_game_action" /\ last.action # NoAction /\ TurnFailure(last))
        => (last.code >= 400 /\ last.detail # None)

---------------------------------------------------------------------------
(* The dice engine on its own: one request is drawn from every dice type,  *)
(* the counts up to MaxCount, every modifier the schema admits and three   *)
(* skill labels, and is served by either HTTP route that reaches           *)
(* process_dice_roll.                                                      *)

SkillNames == {None, "", "Stealth"}
DiceUsers == {"u1"}

\* the specifications that pass DiceRoll's validation, up to MaxCount dice
ValidDiceRolls ==
    [dice_type : DiceTypes, count : CountMin..MaxCount,
     modifier : ModMin..ModMax, skill_name : SkillNames]

DiceRequests == [roll : ValidDiceRolls, waiting : {TRUE}]

InitDice == InitWith({<<>>}, DiceRequests)

\* the request is served once: the faces come from the generator, the
\* store accepts the insert or refuses it
NextDice ==
    \/ /\ pending.waiting
       /\ \E u \in DiceUsers, ok \in BOOLEAN :
             \E rolls \in DrawRolls(pending.roll) :
                RollDice(u, "s1", pending.roll, rolls, ok)
       /\ pending' = NoPending
       /\ UNCHANGED inflight
    \/ /\ pending.waiting
       /\ \E u \in DiceUsers, ok \in BOOLEAN :
             \E rolls \in DrawRolls(pending.roll) :
                AiProcessDiceRoll(u, "s1", pending.roll, rolls, ok)
       /\ pending' = NoPending
       /\ UNCHANGED inflight

SpecDice == InitDice /\ [][NextDice]_vars

DiceOps == {"roll_dice", "ai_roll_dice", "ws_dice_roll"}

\* the handler recorded in l got an outcome back from process_dice_roll
DiceReturned(l) == l.op \in DiceOps /\ l.roll # NoRoll

\* C4: every outcome of process_dice_roll has as many rolls as the
\* specification's count, each between 1 and the die size, a total that is
\* their sum and a final_result that is the total plus the modifier.
C4_DiceOutcomeShape ==
    DiceReturned(last) =>
        /\ Len(last.result.rolls) = last.roll.count
        /\ \A i \in 1..Len(last.result.rolls) :
              /\ last.result.rolls[i] >= 1
              /\ last.result.rolls[i] <= DiceSides(last.roll.dice_type)
        /\ last.result.total = Sum(last.result.rolls)
        /\ last.result.final_result = last.result.total + last.roll.modifier

\* two d100 were rolled with a negative modifier while the store refused the
\* insert, and the highest face came up
C4_Witness ==
    /\ DiceReturned(last)
    /\ last.roll.dice_type = "d100" /\ last.roll.count = 2
    /\ last.roll.modifier < 0
    /\ ~last.st.w1
    /\ last.result.rolls[2] = 100

\* C5, as claimed: the success flag is present exactly when the die has 20
\* sides and the specification carries a skill label, and then it is
\* final_result >= 10.
C5_Original ==
    DiceReturned(last) =>
        /\ (last.result.success # NoFlag)
              <=> (DiceSides(last.roll.dice_type) = 20 /\ last.roll.skill_name # None)
        /\ last.result.success # NoFlag
              => last.result.success = Flag(last.result.final_result >= 10)

\* C5, amended: the success flag is present exactly when the die has 20
\* sides and the specification carries a non-empty skill label, and then it
\* is final_result >= 10.
C5_SuccessFlag ==
    DiceReturned(last) =>
        /\ (last.result.success # NoFlag)
              <=> (DiceSides(last.roll.dice_type) = 20
                   /\ last.roll.skill_name \notin {None, ""})
        /\ last.result.success # NoFlag
              => last.result.success = Flag(last.result.final_result >= 10)

\* a d20 skill check came out at exactly 10 and succeeded
C5_Witness ==
    /\ DiceReturned(last)
    /\ last.roll.dice_type = "d20" /\ last.roll.skill_name = "Stealth"
    /\ last.result.final_result = 10
    /\ last.result.success = Flag(TRUE)

---------------------------------------------------------------------------
(* The session lifecycle: the owner-only routes of routers/game.py and     *)
(* routers/sessions.py next to every entry point that processes an action  *)
(* or a dice roll, with the store and the generation client working.       *)

LifeSessions == {"s1"}
LifeConns == {"c1"}
LifeAction == [action |-> "look", description |-> None, parameters |-> None]
LifeGen == [raised |-> FALSE, text |-> "You see a door."]
LifeRoll == [dice_type |-> "d4", count |-> 1, modifier |-> 0, skill_name |-> None]
LifeRolls == {<<4>>}
LifeUpdates == {b \in SessionUpdates : b.description = None}

InitLifecycle == InitWith({<<>>}, {NoPending})

NextLifecycle ==
    \/ \E u \in Users, sid \in LifeSessions :
          PauseGameSession(u, sid) /\ UNCHANGED <<pending, inflight>>
    \/ \E u \in Users, sid \in LifeSessions :
          ResumeGameSession(u, sid) /\ UNCHANGED <<pending, inflight>>
    \/ \E u \in Users, sid \in LifeSessions :
          CompleteGameSession(u, sid, TRUE) /\ UNCHANGED <<pending, inflight>>
    \/ \E u \in Users, sid \in LifeSessions, body \in LifeUpdates :
          UpdateSession(u, sid, body) /\ UNCHANGED <<pending, inflight>>
    \/ \E u \in Users, sid \in LifeSessions :
          DeleteSession(u, sid) /\ UNCHANGED <<pending, inflight>>
    \/ \E u \in Users, sid \in LifeSessions :
          SubmitGameAction(u, sid, LifeAction, LifeGen, StoreUp) /\ UNCHANGED <<pending, inflight>>
    \/ \E u \in Users, sid \in LifeSessions, rolls \in LifeRolls :
          RollDice(u, sid, LifeRoll, rolls, TRUE) /\ UNCHANGED <<pending, inflight>>
    \/ \E u \in Users, sid \in LifeSessions :
          AiProcessGameAction(u, sid, LifeAction, LifeGen, StoreUp) /\ UNCHANGED <<pending, inflight>>
    \/ \E u \in Users, sid \in LifeSessions, rolls \in LifeRolls :
          AiProcessDiceRoll(u, sid, LifeRoll, rolls, TRUE) /\ UNCHANGED <<pending, inflight>>
    \/ \E c \in LifeConns, sid \in LifeSessions :
          WsConnect(c, sid) /\ UNCHANGED <<pending, inflight>>
    \/ \E c \in LifeConns :
          WsGameAction(c, LifeAction, LifeGen, StoreUp) /\ UNCHANGED <<pending, inflight>>
    \/ \E c \in LifeConns, rolls \in LifeRolls :
          WsDiceRoll(c, LifeRoll, rolls, TRUE) /\ UNCHANGED <<pending, inflight>>

SpecLifecycle == InitLifecycle /\ [][NextLifecycle]_vars

StatusOps == {"pause", "resume", "complete", "update"}
OwnerOps == StatusOps \cup {"delete"}

\* C6, as claimed: a pause, resume, complete or update_session request on a
\* session whose status is completed, by whichever user, leaves its status
\* completed.
C6_CompletedIsTerminal ==
    [][(/\ last'.op \in StatusOps
        /\ SelectSession(last'.sid) # {}
        /\ SessionRow(last'.sid).status = "completed")
         => \E r \in sessions' : r.id = last'.sid /\ r.status = "completed"]_vars

\* C7: a pause, resume, complete, update or delete request by a user who is
\* not the session's creator is answered 403 and leaves the sessions table
\* (status and fields) and the messages table (the transcript) as they were.
C7_OwnerOnlyMutation ==
    [][(/\ last'.op \in OwnerOps
        /\ SelectSession(last'.sid) # {}
        /\ SessionRow(last'.sid).creator_id # last'.user)
         => /\ last'.code = 403
            /\ sessions' = sessions
            /\ messages' = messages]_vars

\* another user asked to delete a paused session that has a transcript and
\* was refused
C7_Witness ==
    /\ last.op = "delete" /\ last.code = 403
    /\ SelectSession(last.sid) # {}
    /\ SessionRow(last.sid).creator_id # last.user
    /\ SessionRow(last.sid).status = "paused"
    /\ Len(Transcript(messages, last.sid)) >= 2

\* the entries a processed action or dice roll leaves in a transcript: the
\* user and model entries and the system entries other than the completion
\* message
GameEntries(msgs, sid) ==
    SelectSeq(msgs, LAMBDA m :
        /\ m.session_id = sid
        /\ \/ m.role \in {"user", "model"}
           \/ m.role = "system" /\ m.content # CompletionMessage)

\* C8, as claimed: no step appends a user, model or dice-roll entry to the
\* transcript of a session whose status is not active.
C8_InactiveSessionProcessesNothing ==
    [][\A r \in sessions :
          r.status # "active" =>
             Len(GameEntries(messages', r.id)) <= Len(GameEntries(messages, r.id))]_vars

---------------------------------------------------------------------------
(* The gateway and the connection registry: three connections over two     *)
(* sessions, peers that go away, and the inbound frames: game_action       *)
(* (broadcast to all), typing (broadcast but to the sender), malformed and *)
(* unknown ones.                                                           *)

InitHub == InitWith({<<>>}, {NoPending})

NextHub ==
    \/ \E c \in Conns, sid \in SessionIds : WsConnect(c, sid) /\ UNCHANGED <<pending, inflight>>
    \/ \E c \in Conns : PeerClose(c) /\ UNCHANGED <<pending, inflight>>
    \/ \E c \in Conns : WsReceiveDisconnect(c) /\ UNCHANGED <<pending, inflight>>
    \/ \E c \in Conns : WsBadFrame(c) /\ UNCHANGED <<pending, inflight>>
    \/ \E c \in Conns :
          WsGameAction(c, LifeAction, LifeGen, StoreUp) /\ UNCHANGED <<pending, inflight>>
    \/ \E c \in Conns, p \in TypingPayloads : WsTyping(c, p) /\ UNCHANGED <<pending, inflight>>
    \/ \E c \in Conns, ty \in UnknownTypes : WsUnknown(c, ty) /\ UNCHANGED <<pending, inflight>>

SpecHub == InitHub /\ [][NextHub]_vars

\* the handlers that broadcast, and the type of the event each sends
BroadcastOps == {"ws_game_action", "ws_dice_roll", "ws_typing"}
EventType(op) ==
    CASE op = "ws_game_action" -> "gm_response"
      [] op = "ws_dice_roll" -> "dice_result"
      [] op = "ws_typing" -> "user_typing"

\* the connection a handler's broadcast excludes: a typing frame's sender
Excluded(l) == IF l.op = "ws_typing" THEN {l.conn} ELSE {}

\* C9: a broadcast to a session delivers the event exactly once to every
\* member of the session but the excluded connection whose send does not
\* throw, and to nobody else; the members whose send throws, and only they,
\* are removed from the session's member set, and no other session's member
\* set changes.
C9_BroadcastDelivery ==
    [][(last'.op \in BroadcastOps /\ last'.leave = "none") =>
        LET sid == last'.sid
            targets == members[sid] \ Excluded(last')
            thrown == {c \in targets : conns[c].st # "open"}
        IN  /\ \A c \in targets \ thrown :
                  /\ Len(sent'[c]) = 1
                  /\ sent'[c][1].type = EventType(last'.op)
            /\ \A c \in Conns \ (targets \ thrown) : sent'[c] = NoEvent
            /\ members'[sid] = members[sid] \ thrown
            /\ \A s \in SessionIds \ {sid} : members'[s] = members[s]]_vars

\* c1 sent a typing frame to a session where c2's peer was gone and c3 was
\* listening: c3 got the event, c1 did not, c2 is no member any more
C9_Witness ==
    /\ last.op = "ws_typing" /\ last.leave = "none" /\ last.conn = "c1"
    /\ conns["c2"] = [st |-> "dead", sid |-> last.sid]
    /\ conns["c3"] = [st |-> "open", sid |-> last.sid]
    /\ members[last.sid] = {"c1", "c3"}
    /\ Len(sent["c3"]) = 1 /\ sent["c3"][1].type = "user_typing"
    /\ sent["c1"] = NoEvent /\ sent["c2"] = NoEvent

\* C10: leaving again after join and leave, and leaving a session never
\* joined, change no member set; a handler that leaves for a connection
\* which is no member any more ends with the registry as it was.
C10_LeaveIdempotent ==
    [][/\ \A c \in Conns, s \in SessionIds :
             LET once == Leave(Join(members, c, s), c, s)
             IN  /\ Leave(once, c, s) = once
                 /\ c \notin members[s] => Leave(members, c, s) = members
       /\ last'.leave = "absent" =>
             /\ members' = members
             /\ conns'[last'.conn].st = "closed"]_vars

\* a connection that a broadcast had already removed left on disconnect,
\* while another connection stayed a member of the same session
C10_Witness ==
    /\ last.op = "ws_disconnect" /\ last.leave = "absent"
    /\ members[last.sid] # {}
    /\ conns[last.conn].st = "closed"

\* C11: a connection is a member of a session only while its receive loop
\* runs on that session (it joined it and has not left since); a connection
\* whose loop has ended is in no member set and is sent nothing.
C11_MembershipFollowsConnection ==
    /\ \A s \in SessionIds : \A c \in members[s] :
          conns[c].st \in {"open", "dead"} /\ conns[c].sid = s
    /\ \A c \in Conns :
          conns[c].st = "closed" =>
             /\ \A s \in SessionIds : c \notin members[s]
             /\ sent[c] = NoEvent

\* a member's loop ended on disconnect while another connection stayed in
\* the session
C11_Witness ==
    /\ last.op = "ws_disconnect" /\ last.leave = "member"
    /\ conns[last.conn].st = "closed"
    /\ last.conn \notin members[last.sid]
    /\ members[last.sid] # {}

\* C12: when a connection sends a typing frame, every other member of its
\* session whose send does not throw gets one user_typing event with the
\* frame's payload, the sender gets nothing, and the messages table is left
\* as it was.
C12_TypingReachesOthersOnly ==
    [][(last'.op = "ws_typing" /\ last'.leave = "none") =>
        /\ \A d \in members[last'.sid] \ {last'.conn} :
              conns[d].st = "open" =>
                 /\ Len(sent'[d]) = 1
                 /\ sent'[d][1].type = "user_typing"
                 /\ sent'[d][1].payload = last'.payload
        /\ sent'[last'.conn] = NoEvent
        /\ messages' = messages]_vars

\* a typing frame reached the two other members of a session that has a
\* transcript, and not its sender
C12_Witness ==
    /\ last.op = "ws_typing" /\ last.leave = "none"
    /\ last.payload = "B is typing"
    /\ members[last.sid] = Conns
    /\ \A d \in Conns \ {last.conn} :
          Len(sent[d]) = 1 /\ sent[d][1].payload = "B is typing"
    /\ sent[last.conn] = NoEvent
    /\ Len(Transcript(messages, last.sid)) > 0

---------------------------------------------------------------------------
(* The gateway's game_action and dice_roll frames: payloads that decode    *)
(* and payloads that do not, the generation client and the store working   *)
(* or failing, on a datastore that already holds a turn of session s1.     *)

FrameActions ==
    {LifeAction, [action |-> "  ", description |-> None, parameters |-> None]}
FrameRolls ==
    {LifeRoll, [dice_type |-> "d20", count |-> 11, modifier |-> 0, skill_name |-> None]}
StoreDown == [read |-> FALSE, w1 |-> FALSE, w2 |-> FALSE]
FrameStores == {StoreUp, StoreDown}
FrameSeed ==
    <<MessageRow("s1", None, "user", "Player action: enter"),
      MessageRow("s1", None, "model", "You stand in a hall.")>>

InitFrames == InitWith({FrameSeed}, {NoPending})

NextFrames ==
    \/ \E c \in Conns, sid \in SessionIds : WsConnect(c, sid) /\ UNCHANGED <<pending, inflight>>
    \/ \E c \in Conns : PeerClose(c) /\ UNCHANGED <<pending, inflight>>
    \/ \E c \in Conns : WsReceiveDisconnect(c) /\ UNCHANGED <<pending, inflight>>
    \/ \E c \in Conns : WsBadFrame(c) /\ UNCHANGED <<pending, inflight>>
    \/ \E c \in Conns, p \in FrameActions, gen \in GenOutcomes, st \in FrameStores :
          WsGameAction(c, p, gen, st) /\ UNCHANGED <<pending, inflight>>
    \/ \E c \in Conns, p \in FrameRolls, ok \in BOOLEAN :
          \E rolls \in LifeRolls : WsDiceRoll(c, p, rolls, ok) /\ UNCHANGED <<pending, inflight>>

SpecFrames == InitFrames /\ [][NextFrames]_vars

\* the handlers that broadcast to the whole session
ReplyOps == {"ws_game_action", "ws_dice_roll"}

\* C13: for every game_action (dice_roll) frame that decodes, one
\* gm_response (dice_result) event goes to every member of the sender's
\* session whose send does not throw, the sender included, and nothing goes
\* to any other connection.
C13_ReplyToWholeSession ==
    [][(last'.op \in ReplyOps /\ last'.leave = "none") =>
        /\ last'.conn \in members[last'.sid]
        /\ \A d \in Conns :
              IF d \in members[last'.sid] /\ conns[d].st = "open"
              THEN /\ Len(sent'[d]) = 1
                   /\ sent'[d][1].type = EventType(last'.op)
                   /\ last'.op = "ws_game_action" => sent'[d][1].reply = last'.reply
                   /\ last'.op = "ws_dice_roll" => sent'[d][1].result = last'.result
              ELSE sent'[d] = NoEvent]_vars

\* c1 rolled dice in a session it shares with c2 while c3 listened to
\* another session: c1 and c2 got the dice_result, c3 got nothing
C13_Witness ==
    /\ last.op = "ws_dice_roll" /\ last.leave = "none" /\ last.conn = "c1"
    /\ members[last.sid] = {"c1", "c2"}
    /\ conns["c3"].st = "open" /\ conns["c3"].sid # last.sid
    /\ Len(sent["c1"]) = 1 /\ sent["c1"][1].type = "dice_result"
    /\ Len(sent["c2"]) = 1 /\ sent["c2"][1].result = last.result
    /\ sent["c3"] = NoEvent

\* C14: a frame whose type is none of game_action, dice_roll and typing is
\* ignored: nothing is sent to any connection, the messages table and the
\* registry stay as they were, and the connection stays open for its next
\* frame.
C14_UnknownTypeIgnored ==
    [][last'.op = "ws_unknown" =>
        /\ sent' = NoSent
        /\ messages' = messages
        /\ sessions' = sessions
        /\ members' = members
        /\ conns' = conns
        /\ conns'[last'.conn].st = "open"
        /\ last'.leave = "none"]_vars

\* a frame of type ping came in on a connection that shares its session
\* with another one: nothing was sent, the sender is still open and a member
C14_Witness ==
    /\ last.op = "ws_unknown" /\ last.detail = "ping"
    /\ conns[last.conn].st = "open"
    /\ last.conn \in members[last.sid]
    /\ Cardinality(members[last.sid]) >= 2
    /\ sent = NoSent
    /\ Len(messages) > 0

\* the handlers whose loop ended: a disconnect, a frame that is no JSON, a
\* payload that does not validate
Faulted(l) == l.leave # "none"

\* C15: when a connection disconnects or a fault ends the processing of one
\* of its frames, that connection leaves the registry and its loop ends,
\* and nothing else changes: every other connection keeps its state and
\* every other member stays a member.
C15_FaultIsolation ==
    [][Faulted(last') =>
        /\ members' = [members EXCEPT ![last'.sid] = @ \ {last'.conn}]
        /\ conns'[last'.conn].st = "closed"
        /\ \A d \in Conns \ {last'.conn} : conns'[d] = conns[d]
        /\ sent' = NoSent]_vars

\* a game_action payload that does not validate ended c1's loop while c2
\* and c3 stayed open members of the session
C15_Witness ==
    /\ last.op = "ws_game_action" /\ last.detail = "ValidationError"
    /\ last.leave = "member" /\ last.conn = "c1"
    /\ conns["c1"].st = "closed"
    /\ members[last.sid] = {"c2", "c3"}
    /\ conns["c2"] = [st |-> "open", sid |-> last.sid]
    /\ conns["c3"] = [st |-> "open", sid |-> last.sid]

C17_MissingSessionIsNotFound ==
    [][(last'.op \in TurnOps \cup DiceOps /\ SelectSession(last'.sid) = {}) =>
        /\ messages' = messages
        /\ last'.conn = None => last'.code = 404
        /\ last'.conn # None => sent' = NoSent]_vars

\* C18, as claimed: whenever process_dice_roll returns an outcome, the
\* messages table has gained exactly one entry, a system entry of the
\* session that summarises that roll.
C18_OutcomeAfterPersistedEntry ==
    [][DiceReturned(last') =>
        messages' = Append(messages,
            MessageRow(last'.sid, None, "system",
                RollMessage(last'.roll, last'.result.rolls,
                            last'.result.final_result, last'.result.success)))]_vars

---------------------------------------------------------------------------
(* Session initialization: AIService.initialize_session behind the game    *)
(* router and the ai router, on an empty datastore and on one that already *)
(* holds entries.                                                          *)

\* the persona prompt (its first sentence stands for the whole text) and the
\* greeting returned when the generation call fails
GmPersona == "You are an advanced AI Game Master (GM) ..."
Welcome == "Welcome to the AI TTRPG! I'm your Game Master. ..."

\* A variant of initialize_session that sends the stored transcript along
\* with the persona prompt.
InitializeSessionWithHistory(msgs, sid, gen, st) ==
    LET s1 == SaveMessage(msgs, sid, "system", GmPersona, st.w1)
        s2 == SaveMessage(s1.msgs, sid, "model", gen.text, st.w2)
    IN  [msgs |-> IF gen.raised THEN msgs ELSE s2.msgs,
         ret |-> IF gen.raised THEN Welcome ELSE gen.text,
         context |-> Append(GetConversationHistory(msgs, sid, st.read),
                            [role |-> "user", content |-> GmPersona])]

\* AIService.initialize_session: the persona prompt alone goes to the
\* generation client; its text is saved after the persona and returned.
\* When the call raises, nothing is saved and the greeting is returned.
InitializeSession(msgs, sid, gen, st) ==
    LET s1 == SaveMessage(msgs, sid, "system", GmPersona, st.w1)
        s2 == SaveMessage(s1.msgs, sid, "model", gen.text, st.w2)
    IN  [msgs |-> IF gen.raised THEN msgs ELSE s2.msgs,
         ret |-> IF gen.raised THEN Welcome ELSE gen.text,
         context |-> <<[role |-> "user", content |-> GmPersona]>>]

\* what an initialization route answers with
InitAnswer(op, u, sid, gen, st, r) ==
    [Http(op, u, sid, 200, None)
     EXCEPT !.gen = gen, !.st = st, !.context = r.context,
            !.reply = [NoReply EXCEPT !.response = r.ret, !.session_id = sid]]

\* routers/game.py: initialize_game_session
InitializeGameSession(u, sid, gen, st) ==
    /\ Len(messages) + 2 <= MaxRows
    /\ IF SelectSession(sid) = {}
       THEN /\ last' = Http("initialize", u, sid, 404, "Session not found")
            /\ UNCHANGED messages
       ELSE IF SessionRow(sid).creator_id # u
       THEN /\ last' = Http("initialize", u, sid, 403,
                            "Only the session creator can initialize the session")
            /\ UNCHANGED messages
       ELSE LET r == InitializeSession(messages, sid, gen, st)
            IN  /\ messages' = r.msgs
                /\ last' = InitAnswer("initialize", u, sid, gen, st, r)
    /\ sent' = NoSent
    /\ UNCHANGED <<sessions, members, conns>>

\* routers/ai.py: initialize_ai_session, no lookup of the session
AiInitializeSession(u, sid, gen, st) ==
    /\ Len(messages) + 2 <= MaxRows
    /\ LET r == InitializeSession(messages, sid, gen, st)
       IN  /\ messages' = r.msgs
           /\ last' = InitAnswer("ai_initialize", u, sid, gen, st, r)
    /\ sent' = NoSent
    /\ UNCHANGED <<sessions, members, conns>>

InitTables == SeedTables \cup {<<>>}

InitSetup == InitWith(InitTables, {NoPending})

NextSetup ==
    \/ \E u \in Users, sid \in SessionIds, gen \in GenOutcomes, st \in StoreOutcomes :
          InitializeGameSession(u, sid, gen, st) /\ UNCHANGED <<pending, inflight>>
    \/ \E u \in Users, sid \in SessionIds, gen \in GenOutcomes, st \in StoreOutcomes :
          AiInitializeSession(u, sid, gen, st) /\ UNCHANGED <<pending, inflight>>

SpecSetup == InitSetup /\ [][NextSetup]_vars

InitOps == {"initialize", "ai_initialize"}

\* the handler recorded in l called initialize_session
Initialized(l) == l.op \in InitOps /\ l.code = 200

\* C19: initialize_session sends the persona prompt alone to the generation
\* client, whatever the messages table holds; when the generation call and
\* both inserts succeed it appends exactly a system entry and then a model
\* entry to the session's transcript, and the text it returns is the
\* content of that model entry.
C19_InitializeSession ==
    [][Initialized(last') =>
        /\ last'.context = <<[role |-> "user", content |-> GmPersona]>>
        /\ (~last'.gen.raised /\ last'.st.w1 /\ last'.st.w2) =>
              /\ messages' = messages \o
                    <<MessageRow(last'.sid, None, "system", GmPersona),
                      MessageRow(last'.sid, None, "model", last'.reply.response)>>
              /\ last'.reply.response = last'.gen.text]_vars

\* the owner initialized a session that already had a transcript, and the
\* two entries follow the two that were there
C19_Witness ==
    /\ last.op = "initialize" /\ last.code = 200
    /\ ~last.gen.raised /\ last.st.w1 /\ last.st.w2
    /\ Len(Transcript(messages, last.sid)) = 4
    /\ Transcript(messages, last.sid)[3].role = "system"
    /\ Transcript(messages, last.sid)[4].content = last.reply.response
    /\ Len(last.context) = 1

---------------------------------------------------------------------------
(* The event loop during a generation call.  The gateway's game_action     *)
(* branch is split where process_game_action calls the generation client:  *)
(* generate_content is an ordinary blocking call made inside the           *)
(* coroutine, and the server is one process with one event loop, so no     *)
(* other coroutine is resumed until the call returns.  A peer can still go *)
(* away in the meantime; the server notices later.                         *)

\* ai_service.py 98-102: no generation call is running on the event loop
LoopFree == ~inflight.waiting

\* main.py 207-212 and ai_service.py 84-98: the frame is received and
\* decoded and the turn reaches the generation call
WsTurnBegin(c, payload) ==
    /\ LoopFree
    /\ conns[c].st = "open"
    /\ Len(messages) + 2 <= MaxRows
    /\ LET parsed == ParseGameAction(payload)
       IN  IF ~parsed.valid
           THEN /\ WsFault("ws_game_action", c, "ValidationError")
                /\ UNCHANGED inflight
           ELSE /\ inflight' = [conn |-> c, action |-> parsed.value, waiting |-> TRUE]
                /\ last' = [WsLast("ws_turn_begin", c, conns[c].sid, None)
                            EXCEPT !.action = parsed.value]
                /\ sent' = NoSent
                /\ UNCHANGED <<members, conns>>
    /\ UNCHANGED <<sessions, messages, pending>>

\* ai_service.py 98-122 and main.py 214-222: the generation call returns or
\* raises, the entries are saved and the reply is broadcast
WsTurnEnd(gen, st) ==
    /\ inflight.waiting
    /\ LET c == inflight.conn
           sid == conns[c].sid
           r == ProcessGameAction(messages, inflight.action, sid, gen, st)
           b == BroadcastToSession(members, conns, sid,
                                   Event("gm_response", r.ret, NoResult, None), None)
       IN  /\ messages' = r.msgs
           /\ members' = b.members
           /\ sent' = b.sent
           /\ last' = [WsLast("ws_game_action", c, sid, None)
                       EXCEPT !.gen = gen, !.st = st,
                              !.action = inflight.action, !.reply = r.ret,
                              !.context = r.context]
    /\ inflight' = NoTurn
    /\ UNCHANGED <<sessions, conns, pending>>

\* main.py 238-248: a typing frame is served when the event loop is free
TypingServed(c, payload) ==
    /\ LoopFree
    /\ WsTyping(c, payload)
    /\ UNCHANGED <<pending, inflight>>

InitLoop == InitWith({<<>>}, {NoPending})

NextLoop ==
    \/ \E c \in Conns, sid \in SessionIds :
          LoopFree /\ WsConnect(c, sid) /\ UNCHANGED <<pending, inflight>>
    \/ \E c \in Conns : PeerClose(c) /\ UNCHANGED <<pending, inflight>>
    \/ \E c \in Conns :
          LoopFree /\ WsReceiveDisconnect(c) /\ UNCHANGED <<pending, inflight>>
    \/ \E c \in Conns, p \in TypingPayloads : TypingServed(c, p)
    \/ \E c \in Conns, p \in FrameActions : WsTurnBegin(c, p)
    \/ \E gen \in GenOutcomes, st \in FrameStores : WsTurnEnd(gen, st)

SpecLoop == InitLoop /\ [][NextLoop]_vars

\* C20: while the turn of one connection waits for the generation client,
\* the server can serve every other open connection (here: its typing
\* frame), so that a generation call that never returns blocks only the
\* turn that made it.
C20_OthersServedDuringGeneration ==
    inflight.waiting =>
        \A c \in Conns \ {inflight.conn} :
            conns[c].st = "open" => ENABLED TypingServed(c, "A is typing")

---------------------------------------------------------------------------
(* Payload validation: the bodies of the four POST routes are decoded by   *)
(* the framework into GameAction and DiceRoll before the route function    *)
(* runs, and the gateway builds the same classes from the frame's payload. *)

\* action payloads, well-formed and blank
ValidationActions ==
    {LifeAction,
     [action |-> "  ", description |-> None, parameters |-> None],
     [action |-> "", description |-> None, parameters |-> None]}
BlankActions == {p \in ValidationActions : p.action \in {"  ", ""}}

\* dice payloads, well-formed and out of range in each field
ValidationRolls ==
    {LifeRoll,
     [LifeRoll EXCEPT !.count = CountMin - 1],
     [LifeRoll EXCEPT !.count = CountMax + 1],
     [LifeRoll EXCEPT !.modifier = ModMin - 1],
     [LifeRoll EXCEPT !.modifier = ModMax + 1],
     [LifeRoll EXCEPT !.dice_type = "d7"]}
OutOfRangeRolls == ValidationRolls \ {LifeRoll}

\* the answer to a body that does not decode: the route function is not called
Unprocessable(op, u, sid) ==
    /\ last' = Http(op, u, sid, 422, "ValidationError")
    /\ sent' = NoSent
    /\ UNCHANGED <<sessions, messages, members, conns>>

\* POST /game/{session_id}/action with a raw body
PostGameAction(u, sid, body, gen, st) ==
    LET parsed == ParseGameAction(body)
    IN  IF parsed.valid
        THEN SubmitGameAction(u, sid, parsed.value, gen, st)
        ELSE Unprocessable("submit_game_action", u, sid)

\* POST /game/{session_id}/roll with a raw body
PostRollDice(u, sid, body, rolls, ok) ==
    LET parsed == ParseDiceRoll(body)
    IN  IF parsed.valid
        THEN RollDice(u, sid, parsed.value, rolls, ok)
        ELSE Unprocessable("roll_dice", u, sid)

\* POST /ai/process-action/{session_id} with a raw body
PostAiGameAction(u, sid, body, gen, st) ==
    LET parsed == ParseGameAction(body)
    IN  IF parsed.valid
        THEN AiProcessGameAction(u, sid, parsed.value, gen, st)
        ELSE Unprocessable("ai_process_action", u, sid)

\* POST /ai/roll-dice/{session_id} with a raw body
PostAiRollDice(u, sid, body, rolls, ok) ==
    LET parsed == ParseDiceRoll(body)
    IN  IF parsed.valid
        THEN AiProcessDiceRoll(u, sid, parsed.value, rolls, ok)
        ELSE Unprocessable("ai_roll_dice", u, sid)

InitValidation == InitWith({<<>>, FrameSeed}, {NoPending})

NextValidation ==
    \/ \E u \in Users, a \in ValidationActions, gen \in GenOutcomes :
          PostGameAction(u, "s1", a, gen, StoreUp) /\ UNCHANGED <<pending, inflight>>
    \/ \E u \in Users, p \in ValidationRolls, rolls \in LifeRolls, ok \in BOOLEAN :
          PostRollDice(u, "s1", p, rolls, ok) /\ UNCHANGED <<pending, inflight>>
    \/ \E u \in Users, a \in ValidationActions, gen \in GenOutcomes :
          PostAiGameAction(u, "s1", a, gen, StoreUp) /\ UNCHANGED <<pending, inflight>>
    \/ \E u \in Users, p \in ValidationRolls, rolls \in LifeRolls, ok \in BOOLEAN :
          PostAiRollDice(u, "s1", p, rolls, ok) /\ UNCHANGED <<pending, inflight>>
    \/ \E c \in LifeConns, sid \in SessionIds :
          WsConnect(c, sid) /\ UNCHANGED <<pending, inflight>>
    \/ \E c \in LifeConns, a \in ValidationActions, gen \in GenOutcomes :
          WsGameAction(c, a, gen, StoreUp) /\ UNCHANGED <<pending, inflight>>
    \/ \E c \in LifeConns, p \in ValidationRolls, rolls \in LifeRolls, ok \in BOOLEAN :
          WsDiceRoll(c, p, rolls, ok) /\ UNCHANGED <<pending, inflight>>

SpecValidation == InitValidation /\ [][NextValidation]_vars

\* a step in which one of the entry points is given a malformed payload
MalformedStep ==
    \/ \E u \in Users, a \in BlankActions, gen \in GenOutcomes :
          \/ PostGameAction(u, "s1", a, gen, StoreUp)
          \/ PostAiGameAction(u, "s1", a, gen, StoreUp)
    \/ \E u \in Users, p \in OutOfRangeRolls, rolls \in LifeRolls, ok \in BOOLEAN :
          \/ PostRollDice(u, "s1", p, rolls, ok)
          \/ PostAiRollDice(u, "s1", p, rolls, ok)
    \/ \E c \in LifeConns, a \in BlankActions, gen \in GenOutcomes :
          WsGameAction(c, a, gen, StoreUp)
    \/ \E c \in LifeConns, p \in OutOfRangeRolls, rolls \in LifeRolls, ok \in BOOLEAN :
          WsDiceRoll(c, p, rolls, ok)

\* C21: a dice payload with count outside 1..10, modifier outside -20..20 or
\* a dice type outside the enumeration, and an action payload whose action
\* text is empty or blank, is rejected before the dice engine or the turn
\* processor runs: nothing is drawn, no generation call is made, no
\* transcript entry is written and nothing is broadcast.
C21_MalformedPayloadRejected ==
    [][MalformedStep =>
          /\ messages' = messages
          /\ last'.gen = NoGen /\ last'.reply = NoReply
          /\ last'.roll = NoRoll /\ last'.result = NoResult
          /\ last'.detail = "ValidationError"
          /\ sent' = NoSent]_vars

\* a dice frame out of range was refused on a session that has entries
C21_Witness ==
    /\ last.op = "ws_dice_roll" /\ last.detail = "ValidationError"
    /\ Len(messages) > 0 /\ last.leave = "member"

---------------------------------------------------------------------------
(* The context of a generation call *)

\* the (role, content) pairs of the session's stored entries, in creation
\* order
StoredContext(msgs, sid) ==
    [i \in 1..Len(Transcript(msgs, sid)) |->
        [role |-> Transcript(msgs, sid)[i].role,
         content |-> Transcript(msgs, sid)[i].content]]

\* C22: in every process_game_action call the context handed to the
\* generation client is the session's stored transcript in creation order
\* followed by the new player entry; no call is made with a context that
\* omits stored entries.
C22_ContextIsTranscriptThenEntry ==
    [][TurnReturned(last') =>
          last'.context =
              Append(StoredContext(messages, last'.sid),
                     [role |-> "user", content |-> UserContent(last'.action)])]_vars

---------------------------------------------------------------------------
(* Entries and the sessions they belong to *)

\* C23: in every reachable state every stored transcript entry references a
\* session that exists.
C23_EntriesBelongToSessions ==
    \A i \in 1..Len(messages) : SelectSession(messages[i].session_id) # {}

---------------------------------------------------------------------------
(* routers/messages.py and the reset route of routers/ai.py.  A message id *)
(* of a request is named by the place its row has in the table when the    *)
(* request arrives; "none" is an id that no row carries and "clear" is the *)
(* path segment of the clear route.                                        *)

MaxMessages == 3    \* rows the messages table may hold in the messages specification

OtherSession ==
    [id |-> "s2", status |-> "active", creator_id |-> "u2",
     title |-> "Game Session", description |-> None]

\* the last path segment of a DELETE /api/v1/messages/{session_id}/...
Segments ==
    {[kind |-> "id", n |-> i] : i \in 1..MaxMessages}
        \cup {[kind |-> "none", n |-> 0], [kind |-> "clear", n |-> 0]}
ClearSegment == [kind |-> "clear", n |-> 0]

\* select('user_id').eq('id', message_id).eq('session_id', session_id): the
\* place of the row, 0 when there is none
MessageInSession(msgs, sid, seg) ==
    IF seg.kind = "id" /\ seg.n <= Len(msgs) /\ msgs[seg.n].session_id = sid
    THEN seg.n ELSE 0

\* delete().eq('id', message_id)
DeleteMessageRow(msgs, i) ==
    [j \in 1..(Len(msgs) - 1) |-> IF j < i THEN msgs[j] ELSE msgs[j + 1]]

\* create_message; ok is whether the store hands the inserted row back
CreateMessage(u, sid, role, content, ok) ==
    /\ Len(messages) + 1 <= MaxRows
    /\ IF SelectSession(sid) = {}
       THEN /\ last' = Http("create_message", u, sid, 404, "Session not found")
            /\ UNCHANGED messages
       ELSE IF SessionRow(sid).status = "completed"
       THEN /\ last' = Http("create_message", u, sid, 400,
                            "Cannot add messages to completed session")
            /\ UNCHANGED messages
       ELSE IF ~ok
       THEN /\ last' = Http("create_message", u, sid, 400, "Failed to create message")
            /\ UNCHANGED messages
       ELSE /\ messages' = Append(messages, MessageRow(sid, u, role, content))
            /\ last' = Http("create_message", u, sid, 201, None)
    /\ sent' = NoSent
    /\ UNCHANGED <<sessions, members, conns>>

\* A variant of delete_message without the check of the requester.
DeleteMessageAnyUser(u, sid, seg, ok) ==
    /\ LET i == MessageInSession(messages, sid, seg)
       IN  IF SelectSession(sid) = {}
           THEN /\ last' = Http("delete_message", u, sid, 404, "Session not found")
                /\ UNCHANGED messages
           ELSE IF ~ok
           THEN /\ last' = Http("delete_message", u, sid, 400, "Failed to delete message")
                /\ UNCHANGED messages
           ELSE IF i = 0
           THEN /\ last' = Http("delete_message", u, sid, 404, "Message not found")
                /\ UNCHANGED messages
           ELSE /\ messages' = DeleteMessageRow(messages, i)
                /\ last' = Http("delete_message", u, sid, 200, None)
    /\ sent' = NoSent
    /\ UNCHANGED <<sessions, members, conns>>

\* delete_message; ok is whether the select of the message succeeds (the
\* store raises, for one, when the segment cannot be an id of its column)
DeleteMessage(u, sid, seg, ok) ==
    /\ LET i == MessageInSession(messages, sid, seg)
       IN  IF SelectSession(sid) = {}
           THEN /\ last' = Http("delete_message", u, sid, 404, "Session not found")
                /\ UNCHANGED messages
           ELSE IF ~ok
           THEN /\ last' = Http("delete_message", u, sid, 400, "Failed to delete message")
                /\ UNCHANGED messages
           ELSE IF i = 0
           THEN /\ last' = Http("delete_message", u, sid, 404, "Message not found")
                /\ UNCHANGED messages
           ELSE IF messages[i].user_id # u /\ SessionRow(sid).creator_id # u
           THEN /\ last' = Http("delete_message", u, sid, 403,
                                "Can only delete your own messages or messages in your sessions")
                /\ UNCHANGED messages
           ELSE /\ messages' = DeleteMessageRow(messages, i)
                /\ last' = Http("delete_message", u, sid, 200, None)
    /\ sent' = NoSent
    /\ UNCHANGED <<sessions, members, conns>>

\* clear_session_messages
ClearSessionMessages(u, sid) ==
    /\ IF SelectSession(sid) = {}
       THEN /\ last' = Http("clear_session_messages", u, sid, 404, "Session not found")
            /\ UNCHANGED messages
       ELSE IF SessionRow(sid).creator_id # u
       THEN /\ last' = Http("clear_session_messages", u, sid, 403,
                            "Only the session creator can clear messages")
            /\ UNCHANGED messages
       ELSE /\ messages' = DeleteSessionMessages(messages, sid)
            /\ last' = Http("clear_session_messages", u, sid, 200, None)
    /\ sent' = NoSent
    /\ UNCHANGED <<sessions, members, conns>>

\* the DELETE routes of the router in the order they are registered, and
\* whether the path /{session_id}/<segment> matches each
RouteMatches(route, seg) ==
    CASE route = "/{session_id}/{message_id}" -> TRUE
      [] route = "/{session_id}/clear" -> seg.kind = "clear"
DeleteRoutes == <<"/{session_id}/{message_id}", "/{session_id}/clear">>

\* the first registered route that matches
MatchedRoute(seg) ==
    DeleteRoutes[CHOOSE i \in 1..Len(DeleteRoutes) :
                    /\ RouteMatches(DeleteRoutes[i], seg)
                    /\ \A j \in 1..(i - 1) : ~RouteMatches(DeleteRoutes[j], seg)]

\* DELETE /api/v1/messages/{session_id}/<segment>
MessagesDelete(u, sid, seg, ok) ==
    IF MatchedRoute(seg) = "/{session_id}/{message_id}"
    THEN DeleteMessage(u, sid, seg, ok)
    ELSE ClearSessionMessages(u, sid)

\* AIService.reset_session_context: the delete; a failure is logged and
\* answered False
ResetSessionContext(msgs, sid, ok) ==
    [msgs |-> IF ok THEN DeleteSessionMessages(msgs, sid) ELSE msgs, ret |-> ok]

\* reset_session_context of routers/ai.py: no lookup of the session or of
\* its creator, and the service's answer is not looked at
AiResetSessionContext(u, sid, ok) ==
    /\ messages' = ResetSessionContext(messages, sid, ok).msgs
    /\ last' = [Http("ai_reset_context", u, sid, 200, None)
                EXCEPT !.st = [StoreUp EXCEPT !.w1 = ok]]
    /\ sent' = NoSent
    /\ UNCHANGED <<sessions, members, conns>>

MessageTexts == {"I search for traps"}

\* the table at startup: empty, or holding a greeting that initialize_session
\* saved for s1
MessageTables == {<<>>, <<MessageRow("s1", None, "model", "You stand in a hall.")>>}

InitMessages ==
    /\ sessions = {InitialSession, OtherSession}
    /\ messages \in MessageTables
    /\ members = [s \in SessionIds |-> {}]
    /\ conns = [c \in Conns |-> [st |-> "closed", sid |-> None]]
    /\ sent = NoSent
    /\ pending = NoPending
    /\ inflight = NoTurn
    /\ last = NoLast

NextMessages ==
    \/ \E u \in Users, sid \in SessionIds, content \in MessageTexts, ok \in BOOLEAN :
          /\ Len(messages) < MaxMessages
          /\ CreateMessage(u, sid, "user", content, ok) /\ UNCHANGED <<pending, inflight>>
    \/ \E u \in Users, sid \in SessionIds, seg \in Segments, ok \in BOOLEAN :
          MessagesDelete(u, sid, seg, ok) /\ UNCHANGED <<pending, inflight>>
    \/ \E u \in Users, sid \in SessionIds, ok \in BOOLEAN :
          AiResetSessionContext(u, sid, ok) /\ UNCHANGED <<pending, inflight>>
    \/ \E u \in Users, sid \in SessionIds :
          DeleteSession(u, sid) /\ UNCHANGED <<pending, inflight>>

SpecMessages == InitMessages /\ [][NextMessages]_vars

\* the requests that delete the messages of a session all at once
WholesaleOps == {"clear_session_messages", "ai_reset_context", "delete"}

\* C24: all messages of a session are deleted at once only on request of the
\* session's creator: no request of another user empties the transcript.
C24_OnlyCreatorEmptiesTranscript ==
    [][\A sid \in SessionIds :
          (/\ last'.op \in WholesaleOps /\ last'.sid = sid
           /\ Transcript(messages, sid) # <<>>
           /\ Transcript(messages', sid) = <<>>)
             => /\ SelectSession(sid) # {}
                /\ SessionRow(sid).creator_id = last'.user]_vars

\* the message the segment names is stored under the session of the path
NamesMessageOf(sid, seg) ==
    seg.kind = "id" /\ seg.n <= Len(messages) /\ messages[seg.n].session_id = sid

\* the requester wrote the message or created the session
MayDelete(u, sid, seg) ==
    \/ messages[seg.n].user_id = u
    \/ \E r \in sessions : r.id = sid /\ r.creator_id = u

\* C25: delete_message removes a message only when the requester is the
\* message's author or the creator of its session; for any other requester
\* it answers forbidden and the message stays stored, and for a message id
\* that is not in that session it answers not-found and deletes nothing
\* (the answers are those given while the store can be read).
C25_DeleteMessagePermission ==
    [][\A u \in Users, sid \in SessionIds, seg \in Segments, ok \in BOOLEAN :
          DeleteMessage(u, sid, seg, ok) =>
             /\ messages' # messages =>
                   /\ NamesMessageOf(sid, seg) /\ MayDelete(u, sid, seg)
                   /\ Len(messages') = Len(messages) - 1
                   /\ \A j \in 1..Len(messages') :
                         messages'[j] = IF j < seg.n THEN messages[j] ELSE messages[j + 1]
                   /\ last'.code = 200
             /\ (ok /\ SelectSession(sid) # {} /\ NamesMessageOf(sid, seg)
                    /\ ~MayDelete(u, sid, seg))
                   => last'.code = 403 /\ messages' = messages
             /\ (ok /\ ~NamesMessageOf(sid, seg))
                   => last'.code = 404 /\ messages' = messages]_vars

\* a user who neither wrote the message nor created the session was refused
C25_Witness ==
    /\ last.op = "delete_message" /\ last.code = 403
    /\ \E i \in 1..Len(messages) :
          /\ messages[i].session_id = last.sid
          /\ messages[i].user_id \notin {last.user, None}

\* C27: a DELETE of /{session_id}/clear made by the session's creator is
\* handled by clear_session_messages and leaves the session with no message.
C27_ClearReachesClearHandler ==
    [][\A u \in Users, sid \in SessionIds, ok \in BOOLEAN :
          (/\ MessagesDelete(u, sid, ClearSegment, ok)
           /\ \E r \in sessions : r.id = sid /\ r.creator_id = u)
             => /\ last'.op = "clear_session_messages"
                /\ Transcript(messages', sid) = <<>>]_vars

---------------------------------------------------------------------------
(* Pause and resume *)

\* the status of the session in a sessions table
StatusIn(tbl, sid) == (CHOOSE r \in tbl : r.id = sid).status

\* C26: pause succeeds only when the session's status is active and resume
\* only when it is paused; in every other status the request is answered
\* with an error and the status is unchanged, so the only status changes
\* pause and resume make are active to paused and paused to active.
C26_PauseResumeTransitions ==
    [][(last'.op \in {"pause", "resume"} /\ SelectSession(last'.sid) # {}) =>
          LET from == IF last'.op = "pause" THEN "active" ELSE "paused"
              to == IF last'.op = "pause" THEN "paused" ELSE "active"
          IN  IF last'.code = 200
              THEN /\ StatusIn(sessions, last'.sid) = from
                   /\ sessions' = UpdateSessionRows(last'.sid, [status |-> to])
              ELSE /\ last'.code >= 400
                   /\ sessions' = sessions
                   /\ \/ StatusIn(sessions, last'.sid) # from
                      \/ SessionRow(last'.sid).creator_id # last'.user]_vars

\* the creator asked to resume a completed session and was refused
C26_Witness ==
    /\ last.op = "resume" /\ last.code = 400
    /\ SelectSession(last.sid) # {}
    /\ SessionRow(last.sid).status = "completed"
    /\ SessionRow(last.sid).creator_id = last.user

---------------------------------------------------------------------------
(* The entries of one turn *)

\* C28: after any sequence of turns on a session, turns during which a store
\* write fails included, every model entry written by process_game_action
\* is immediately preceded in the transcript by the user entry of the same
\* turn.
C28_ModelEntryFollowsItsUserEntry ==
    [][TurnReturned(last') =>
          LET before == Transcript(messages, last'.sid)
              after == Transcript(messages', last'.sid)
          IN  \A i \in (Len(before) + 1)..Len(after) :
                 after[i].role = "model" =>
                    /\ i - 1 > Len(before)
                    /\ after[i - 1] = MessageRow(last'.sid, None, "user",
                                                 UserContent(last'.action))]_vars

\* C29: when the generation client raises during process_game_action, the
\* messages table is left as it was: neither the player's user entry nor a
\* model entry is persisted for that turn, on any of the three routes.
C29_FailedGenerationWritesNothing ==
    [][(TurnReturned(last') /\ last'.gen.raised) => messages' = messages]_vars

\* the generation call raised during a turn of the game route while the
\* store would have accepted both inserts
C29_Witness ==
    /\ last.op = "submit_game_action" /\ last.gen.raised
    /\ last.reply.error = last.gen.text
    /\ last.st.w1 /\ last.st.w2
    /\ Len(Transcript(messages, last.sid)) >= 2

---------------------------------------------------------------------------
(* Completion *)

\* the completion messages a transcript holds
CompletionEntries(msgs, sid) ==
    SelectSeq(Transcript(msgs, sid), LAMBDA m : m.content = CompletionMessage)

\* C30: complete_game_session is idempotent: completing a session that is
\* already completed leaves its status and its transcript unchanged, so a
\* session's transcript holds at most one completion message.
C30_CompleteIsIdempotent ==
    [][(/\ last'.op = "complete"
        /\ SelectSession(last'.sid) # {}
        /\ SessionRow(last'.sid).status = "completed")
          => /\ sessions' = sessions
             /\ Transcript(messages', last'.sid) = Transcript(messages, last'.sid)
             /\ Len(CompletionEntries(messages', last'.sid)) <= 1]_vars

=============================================================================
